---- MODULE Spec2Model ----
(***************************************************************************)
(* Model of pdf-response-checker: the response extractor, the colour-based *)
(* answer-key extractor and the scorer of src/app.py and                   *)
(* src/pdf_checker.py.                                                     *)
(*                                                                         *)
(* Three specifications share the variables:                               *)
(*   SpecScore  calculate_score over every bounded ResponseMap,            *)
(*              AnswerKeyMap and AmbiguousSet, one loop iteration a step;  *)
(*   SpecKey    the answer-key scan, one line of the document a step, in   *)
(*              both implementations (impl);                               *)
(*   SpecResp   the response extractor over every bounded response text,   *)
(*              re.findall and then one match a step.                      *)
(***************************************************************************)
EXTENDS Integers, Sequences, FiniteSets, TLC

VARIABLES
    impl,         \* which file's extractor runs: "app" or "pdf_checker"
    doc,          \* the lines of the key document scanned so far
    answerkey,    \* dict qid -> set of option numbers
    ambiguous,    \* set of qids
    current_qid,  \* the scan's current question, None before any marker
    responses,    \* dict qid -> set of chosen options
    respOrder,    \* the insertion order of responses (its iteration order)
    idx,          \* how many items of responses the scorer has consumed
    correct,      \* calculate_score's counter
    wrong,        \* calculate_score's counter
    details,      \* calculate_score's verdict list
    text,         \* the response sheet's text
    matches,      \* the list re.findall returned
    phase         \* position of the running function

vars == <<impl, doc, answerkey, ambiguous, current_qid, responses, respOrder,
          idx, correct, wrong, details, text, matches, phase>>

keyVars == <<impl, doc, current_qid>>
scoreVars == <<idx, correct, wrong, details>>
respVars == <<text, matches>>

\* ---------------------------------------------------------------- bounds
NumQ == 2          \* question ids the scorer's maps range over
MaxLines == 3      \* lines of the key document
MaxDocSpans == 3   \* styled spans of the key document, over all its lines
MaxLen == 6        \* tokens of the response text

\* current_qid = None
None == 0

Impls == {"app", "pdf_checker"}

QIds == 1..NumQ
Opts == {1, 2}

EmptyMap == [q \in {} |-> {}]

\* All dicts from some of the ids in Q to sets of options in O.
Maps(Q, O) == UNION {[D -> SUBSET O] : D \in SUBSET Q}

\* All orders in which the keys S can have been inserted.
Orders(S) == {s \in [1..Cardinality(S) -> S] : \A i, j \in 1..Cardinality(S) : i # j => s[i] # s[j]}

\* ================================================================ Scorer
Verdict(qid, chosen, correct_set, result) ==
    [qid |-> qid, chosen |-> chosen, correct_set |-> correct_set, result |-> result]

Outcome(v, dc, dw) == [verdict |-> v, dc |-> dc, dw |-> dw]

\* qid not in answerkey: details.append((qid, chosen, set(), "no-key")); wrong += 1
NoKeyBranch_counted_correct(qid, chosen) ==
    Outcome(Verdict(qid, chosen, {}, "no-key"), 1, 0)

NoKeyBranch(qid, chosen) ==
    Outcome(Verdict(qid, chosen, {}, "no-key"), 0, 1)

\* len(correct_set) == 1
SingleBranch_superset(qid, chosen_set, correct_set) ==
    IF correct_set \subseteq chosen_set
    THEN Outcome(Verdict(qid, chosen_set, correct_set, "correct"), 1, 0)
    ELSE Outcome(Verdict(qid, chosen_set, correct_set, "wrong"), 0, 1)

SingleBranch(qid, chosen_set, correct_set) ==
    IF chosen_set = correct_set
    THEN Outcome(Verdict(qid, chosen_set, correct_set, "correct"), 1, 0)
    ELSE Outcome(Verdict(qid, chosen_set, correct_set, "wrong"), 0, 1)

\* len(correct_set) != 1 and qid in ambiguous
AmbiguousBranch_exact(qid, chosen_set, correct_set) ==
    IF chosen_set = correct_set
    THEN Outcome(Verdict(qid, chosen_set, correct_set, "correct (ambiguous)"), 1, 0)
    ELSE Outcome(Verdict(qid, chosen_set, correct_set, "wrong (ambiguous)"), 0, 1)

AmbiguousBranch(qid, chosen_set, correct_set) ==
    IF chosen_set \cap correct_set # {}
    THEN Outcome(Verdict(qid, chosen_set, correct_set, "correct (ambiguous)"), 1, 0)
    ELSE Outcome(Verdict(qid, chosen_set, correct_set, "wrong (ambiguous)"), 0, 1)

\* The label of an exact multi-option match: app.py:147, pdf_checker.py:106.
MultiExactLabel(im) == IF im = "app" THEN "correct (multi exact)" ELSE "correct (multi)"

\* len(correct_set) != 1 and qid not in ambiguous
MultiBranch_uncounted(im, qid, chosen_set, correct_set) ==
    IF chosen_set = correct_set
    THEN Outcome(Verdict(qid, chosen_set, correct_set, MultiExactLabel(im)), 1, 0)
    ELSE Outcome(Verdict(qid, chosen_set, correct_set, "wrong (multi)"), 0, 0)

MultiBranch(im, qid, chosen_set, correct_set) ==
    IF chosen_set = correct_set
    THEN Outcome(Verdict(qid, chosen_set, correct_set, MultiExactLabel(im)), 1, 0)
    ELSE Outcome(Verdict(qid, chosen_set, correct_set, "wrong (multi)"), 0, 1)

\* The body of calculate_score's loop for one item of responses.
ScoreOne(im, qid, chosen, key, amb) ==
    IF qid \notin DOMAIN key
    THEN NoKeyBranch(qid, chosen)
    ELSE LET correct_set == key[qid]
             chosen_set == chosen
         IN  IF Cardinality(correct_set) = 1
             THEN SingleBranch(qid, chosen_set, correct_set)
             ELSE IF qid \in amb
                  THEN AmbiguousBranch(qid, chosen_set, correct_set)
                  ELSE MultiBranch(im, qid, chosen_set, correct_set)

InitScore ==
    /\ responses \in Maps(QIds, Opts)
    /\ respOrder \in Orders(DOMAIN responses)
    /\ answerkey \in Maps(QIds, Opts)
    /\ ambiguous \in SUBSET QIds
    /\ idx = 0
    /\ correct = 0
    /\ wrong = 0
    /\ details = <<>>
    /\ phase = "scoring"
    /\ impl \in Impls
    /\ doc = <<>>
    /\ current_qid = None
    /\ text = <<>>
    /\ matches = <<>>

\* One iteration of "for qid, chosen in responses.items()".
ScoreStep ==
    /\ phase = "scoring"
    /\ idx < Len(respOrder)
    /\ LET qid == respOrder[idx + 1]
           out == ScoreOne(impl, qid, responses[qid], answerkey, ambiguous)
       IN  /\ details' = Append(details, out.verdict)
           /\ correct' = correct + out.dc
           /\ wrong' = wrong + out.dw
    /\ idx' = idx + 1
    /\ UNCHANGED <<responses, respOrder, answerkey, ambiguous, phase, keyVars, respVars>>

\* "return correct, wrong, details"
ScoreReturn ==
    /\ phase = "scoring"
    /\ idx = Len(respOrder)
    /\ phase' = "scored"
    /\ UNCHANGED <<responses, respOrder, answerkey, ambiguous, scoreVars, keyVars, respVars>>

NextScore == ScoreStep \/ ScoreReturn

SpecScore == InitScore /\ [][NextScore]_vars

\* ------------------------------------------------------- Scorer: claims
Verdicts == {details[i] : i \in 1..Len(details)}

CorrectLabels == {"correct", "correct (ambiguous)", MultiExactLabel(impl)}

\* C1: calculate_score returns exactly one verdict for each question id of
\* ResponseMap and none for an id that is only in AnswerKeyMap, and
\* correctCount + wrongCount is the number of verdicts, correctCount being the
\* number of Correct / CorrectAmbiguous / CorrectMultiExact verdicts.
C1_OneVerdictPerResponse ==
    /\ correct + wrong = Len(details)
    /\ correct = Cardinality({i \in 1..Len(details) : details[i].result \in CorrectLabels})
    /\ \A i, j \in 1..Len(details) : i # j => details[i].qid # details[j].qid
    /\ \A i \in 1..Len(details) : details[i].qid \in DOMAIN responses
    /\ phase = "scored" => {d.qid : d \in Verdicts} = DOMAIN responses

C1_Witness ==
    /\ phase = "scored"
    /\ Len(details) = 1
    /\ correct = 1
    /\ wrong = 0
    /\ DOMAIN responses = {1}
    /\ DOMAIN answerkey = {1, 2}

\* C2: with a key set of exactly one option the outcome is Correct iff the
\* chosen set equals the key set and Wrong otherwise, whether or not the
\* question is in AmbiguousSet.
C2_SingleKeyExactMatch ==
    \A d \in Verdicts :
        (d.qid \in DOMAIN answerkey /\ Cardinality(answerkey[d.qid]) = 1) =>
            /\ d.chosen = responses[d.qid]
            /\ d.correct_set = answerkey[d.qid]
            /\ d.result = IF responses[d.qid] = answerkey[d.qid] THEN "correct" ELSE "wrong"

C2_Witness ==
    /\ \E d \in Verdicts : /\ d.qid \in DOMAIN answerkey
                            /\ answerkey[d.qid] = {1}
                            /\ responses[d.qid] = {1, 2}
                            /\ d.qid \in ambiguous
                            /\ d.result = "wrong"
    /\ \E d \in Verdicts : /\ d.qid \in DOMAIN answerkey
                            /\ answerkey[d.qid] = {2}
                            /\ responses[d.qid] = {2}
                            /\ d.qid \notin ambiguous
                            /\ d.result = "correct"

\* C3: with a key set of zero or at least two options, an ambiguous question
\* is CorrectAmbiguous iff chosen and key share an option, else WrongAmbiguous;
\* a non-ambiguous one is CorrectMultiExact iff chosen equals the key set, else
\* WrongMulti.
C3_MultiKeyPolicy ==
    \A d \in Verdicts :
        (d.qid \in DOMAIN answerkey /\ Cardinality(answerkey[d.qid]) # 1) =>
            LET chosen == responses[d.qid]
                key == answerkey[d.qid]
            IN  /\ d.chosen = chosen
                /\ d.correct_set = key
                /\ d.result =
                     IF d.qid \in ambiguous
                     THEN (IF chosen \cap key # {} THEN "correct (ambiguous)" ELSE "wrong (ambiguous)")
                     ELSE (IF chosen = key THEN MultiExactLabel(impl) ELSE "wrong (multi)")
                /\ (key = {} /\ d.qid \in ambiguous) => d.result = "wrong (ambiguous)"
                /\ (key = {} /\ d.qid \notin ambiguous) =>
                       (d.result = MultiExactLabel(impl) <=> chosen = {})

C3_Witness ==
    /\ \E d \in Verdicts : /\ d.qid \in DOMAIN answerkey
                            /\ answerkey[d.qid] = {1, 2}
                            /\ responses[d.qid] = {2}
                            /\ d.qid \in ambiguous
                            /\ d.result = "correct (ambiguous)"
    /\ \E d \in Verdicts : /\ d.qid \in DOMAIN answerkey
                            /\ answerkey[d.qid] = {}
                            /\ responses[d.qid] = {}
                            /\ d.qid \notin ambiguous
                            /\ d.result = MultiExactLabel(impl)

\* C4: a question id of ResponseMap that is no key of AnswerKeyMap gets the
\* NoKey verdict with an empty correct set, adds one to wrongCount and nothing
\* to correctCount, and the loop goes on to the remaining questions.
C4_NoKeyStep ==
    LET q == respOrder[idx + 1]
    IN  (idx < Len(respOrder) /\ idx' = idx + 1 /\ q \notin DOMAIN answerkey) =>
            /\ details' = Append(details, Verdict(q, responses[q], {}, "no-key"))
            /\ wrong' = wrong + 1
            /\ correct' = correct
            /\ phase' = "scoring"

C4_NoKeyCountsWrong ==
    /\ [][C4_NoKeyStep]_vars
    /\ [](phase = "scored" => Len(details) = Cardinality(DOMAIN responses))

C4_Witness ==
    /\ phase = "scored"
    /\ Len(details) = 2
    /\ details[1].qid \notin DOMAIN answerkey
    /\ details[1].qid \in ambiguous
    /\ details[1].chosen = {1, 2}
    /\ details[1].result = "no-key"
    /\ details[2].result = "correct"
    /\ correct = 1
    /\ wrong = 1

\* ====================================================== Colour classifier
\* A span's colour as PyMuPDF may deliver it: None, a packed 0xRRGGBB integer,
\* or a 3-sequence.  The components of a sequence are kept in thousandths, so
\* that both the float range [0,1] and byte values 0..255 are integers here:
\* Triple(0, 200000, 0) is the Python tuple (0, 200, 0) and
\* Triple(0, 800, 0) is (0.0, 0.8, 0.0).
NoColor == [kind |-> "none"]
Packed(v) == [kind |-> "int", v |-> v]
Triple(r, g, b) == [kind |-> "tuple", c |-> <<r, g, b>>]

Rgb(r, g, b) == [r |-> r, g |-> g, b |-> b]

\* int(c * 255) and int(c) of a non-negative component c given in thousandths
ScaleBy255(m) == (m * 255) \div 1000
Truncate(m) == m \div 1000

\* (color_int >> 16) & 255, (color_int >> 8) & 255, color_int & 255
UnpackRgb(v) == Rgb((v \div 65536) % 256, (v \div 256) % 256, v % 256)

\* app.py: _span_color_to_rgb
SpanColorToRgb(color) ==
    IF color.kind = "none" THEN Rgb(0, 0, 0)
    ELSE IF color.kind = "int" THEN UnpackRgb(color.v)
    ELSE IF \A k \in 1..3 : 0 <= color.c[k] /\ color.c[k] <= 1000
         THEN Rgb(ScaleBy255(color.c[1]), ScaleBy255(color.c[2]), ScaleBy255(color.c[3]))
         ELSE Rgb(Truncate(color.c[1]), Truncate(color.c[2]), Truncate(color.c[3]))

\* pdf_checker.py: the conversion inlined in extract_answerkey_with_colors
InlineColorToRgb(color) ==
    IF color.kind = "int" THEN UnpackRgb(color.v)
    ELSE IF color.kind = "tuple"
         THEN Rgb(ScaleBy255(color.c[1]), ScaleBy255(color.c[2]), ScaleBy255(color.c[3]))
         ELSE Rgb(0, 0, 0)

ColorToRgb(im, color) ==
    IF im = "app" THEN SpanColorToRgb(color) ELSE InlineColorToRgb(color)

\* (g > 120) and (g > r + 30) and (g > b + 30)
IsGreen(rgb) == rgb.g > 120 /\ rgb.g > rgb.r + 30 /\ rgb.g > rgb.b + 30

\* ==================================================== Answer-key extractor
\* The span texts the scan tells apart: a question marker "Question Id : <q>",
\* an ambiguity note (either phrase), an option "<digits>. ..." in some colour.
Green200 == Triple(0, 200000, 0)
Red200 == Triple(200000, 0, 0)
Grey130 == Triple(100000, 130000, 100000)
PackedGreen == Packed(51200)

KeyQIds == {5, 6}
KeyColors == {Green200, Red200, Grey130, PackedGreen}
NotePhrases == {"ambigu", "candidate will get full marks"}

MarkerSpan(q) == [kind |-> "marker", qid |-> q]
NoteSpan(p) == [kind |-> "note", phrase |-> p]
OptionSpan(o, c) == [kind |-> "option", opt |-> o, color |-> c]

Spans ==
    {MarkerSpan(q) : q \in KeyQIds} \cup {NoteSpan(p) : p \in NotePhrases}
        \cup {OptionSpan(o, c) : o \in Opts, c \in KeyColors}

\* The lines of at most n spans.
LinesUpTo(n) == UNION {[1..m -> Spans] : m \in 0..n}

RECURSIVE SpanCount(_)
SpanCount(d) == IF d = <<>> THEN 0 ELSE Len(Head(d)) + SpanCount(Tail(d))

\* m_q = re.search(r"Question\s+Id\s*:\s*(\d+)", line_text): the first marker
\* of the joined line text, None when there is none.
FirstMarker(line) ==
    LET at == {j \in 1..Len(line) : line[j].kind = "marker"}
    IN  IF at = {} THEN None
        ELSE line[CHOOSE j \in at : \A k \in at : j <= k].qid

\* "ambigu" in line_text.lower() or "candidate will get full marks" in ...
HasNote(line) == \E j \in 1..Len(line) : line[j].kind = "note"

\* if m_q: current_qid = m_q.group(1)
CurrentAfterMarker_last(cur, line) ==
    LET at == {j \in 1..Len(line) : line[j].kind = "marker"}
    IN  IF at = {} THEN cur
        ELSE line[CHOOSE j \in at : \A k \in at : j >= k].qid

CurrentAfterMarker(cur, line) ==
    IF FirstMarker(line) # None THEN FirstMarker(line) ELSE cur

\* answerkey.setdefault(current_qid, set())
SetDefault_reset(ak, q) ==
    [k \in (DOMAIN ak) \cup {q} |-> IF k = q THEN {} ELSE ak[k]]

SetDefault(ak, q) ==
    IF q \in DOMAIN ak THEN ak
    ELSE [k \in (DOMAIN ak) \cup {q} |-> IF k = q THEN {} ELSE ak[k]]

\* if current_qid and (<note in line_text>): ambiguous.add(current_qid)
AddAmbiguous_unguarded(amb, cur, line) ==
    IF HasNote(line) THEN amb \cup {cur} ELSE amb

AddAmbiguous(amb, cur, line) ==
    IF cur # None /\ HasNote(line) THEN amb \cup {cur} ELSE amb

\* One iteration of "for s in line.get('spans', [])".
ScanSpan(im, ak, cur, s) ==
    IF s.kind = "option" /\ cur # None /\ IsGreen(ColorToRgb(im, s.color))
    THEN [ak EXCEPT ![cur] = @ \cup {s.opt}]
    ELSE ak

RECURSIVE ScanSpans(_, _, _, _)
ScanSpans(im, ak, cur, spans) ==
    IF spans = <<>> THEN ak
    ELSE ScanSpans(im, ScanSpan(im, ak, cur, Head(spans)), cur, Tail(spans))

InitKey ==
    /\ impl \in Impls
    /\ doc = <<>>
    /\ answerkey = EmptyMap
    /\ ambiguous = {}
    /\ current_qid = None
    /\ phase = "scanning"
    /\ responses = EmptyMap
    /\ respOrder = <<>>
    /\ idx = 0
    /\ correct = 0
    /\ wrong = 0
    /\ details = <<>>
    /\ text = <<>>
    /\ matches = <<>>

\* The body of "for line in b.get('lines', [])" for the document's next line.
ProcessLine ==
    /\ phase = "scanning"
    /\ Len(doc) < MaxLines
    /\ \E line \in LinesUpTo(MaxDocSpans - SpanCount(doc)) :
         LET m_q == FirstMarker(line)
             cur == CurrentAfterMarker(current_qid, line)
             ak == IF m_q # None THEN SetDefault(answerkey, cur) ELSE answerkey
         IN  /\ doc' = Append(doc, line)
             /\ current_qid' = cur
             /\ ambiguous' = AddAmbiguous(ambiguous, cur, line)
             /\ answerkey' = ScanSpans(impl, ak, cur, line)
    /\ UNCHANGED <<impl, phase, responses, respOrder, scoreVars, respVars>>

\* "doc.close(); return answerkey, ambiguous"
KeyReturn ==
    /\ phase = "scanning"
    /\ phase' = "scanned"
    /\ UNCHANGED <<answerkey, ambiguous, responses, respOrder, keyVars, scoreVars, respVars>>

NextKey == ProcessLine \/ KeyReturn

SpecKey == InitKey /\ [][NextKey]_vars

\* ------------------------------------------- Answer-key extractor: claims
\* The lines among the first i of d whose joined text holds a question marker.
MarkerLines(d, i) == {k \in 1..i : \E j \in 1..Len(d[k]) : d[k][j].kind = "marker"}

\* The question a line belongs to: the id captured on the latest line, up to
\* and including line i, that holds a marker; None when there is none.
LineQid(d, i) ==
    IF MarkerLines(d, i) = {} THEN None
    ELSE FirstMarker(d[CHOOSE k \in MarkerLines(d, i) : \A m \in MarkerLines(d, i) : m <= k])

\* The question a span belongs to in reading order: the id of the last marker
\* span before span j of line i (earlier in that line, or on an earlier line).
ReadingOrderQid(d, i, j) ==
    LET before == {p \in (1..i) \X (1..MaxDocSpans + 1) :
                      /\ p[2] <= Len(d[p[1]])
                      /\ (p[1] < i \/ p[2] < j)
                      /\ d[p[1]][p[2]].kind = "marker"}
    IN  IF before = {} THEN None
        ELSE LET last == CHOOSE p \in before : \A r \in before :
                             r[1] < p[1] \/ (r[1] = p[1] /\ r[2] <= p[2])
             IN  d[last[1]][last[2]].qid

OptionSpansAt(d) ==
    {p \in (1..Len(d)) \X (1..MaxDocSpans + 1) :
        p[2] <= Len(d[p[1]]) /\ d[p[1]][p[2]].kind = "option"}

\* C6: once a line with a question marker has been processed its id is a key of
\* AnswerKeyMap for good, with the empty set when no option was collected;
\* seeing the marker again neither removes the entry nor resets its options,
\* and a question's option set only grows.
C6_EntryKeptAndGrows ==
    /\ [](\A i \in 1..Len(doc) :
             FirstMarker(doc[i]) # None => FirstMarker(doc[i]) \in DOMAIN answerkey)
    /\ [][\A q \in DOMAIN answerkey :
             q \in DOMAIN answerkey' /\ answerkey[q] \subseteq answerkey'[q]]_vars

C6_Witness ==
    /\ Len(doc) = 3
    /\ doc[1] = <<MarkerSpan(6)>>
    /\ doc[2] = <<OptionSpan(1, PackedGreen)>>
    /\ doc[3] = <<MarkerSpan(6)>>
    /\ answerkey = (6 :> {1})
    /\ phase = "scanned"

\* C7: a 3-component colour is scaled by 255 only when all components lie in
\* [0,1] and is otherwise taken as byte values, so in both implementations an
\* option span coloured (0,200,0) is added to its question's key set and spans
\* coloured (200,0,0) or (100,130,100) are not.
C7_ByteTriplesClassified ==
    /\ \A p \in OptionSpansAt(doc) :
         LET s == doc[p[1]][p[2]]
             q == LineQid(doc, p[1])
         IN  (q # None /\ s.color = Green200) => s.opt \in answerkey[q]
    /\ \A q \in DOMAIN answerkey : \A o \in answerkey[q] :
         \E p \in OptionSpansAt(doc) :
            LET s == doc[p[1]][p[2]]
            IN  /\ s.opt = o
                /\ LineQid(doc, p[1]) = q
                /\ s.color \notin {Red200, Grey130}

\* C9 as stated: an option is in AnswerKeyMap[q] only if an option span with that
\* number follows q's marker in reading order (spans in order within a line)
\* with no other marker in between; so option spans before every marker leave
\* AnswerKeyMap empty.
C9_Original_SpanOrder ==
    \A q \in DOMAIN answerkey : \A o \in answerkey[q] :
        \E p \in OptionSpansAt(doc) :
            /\ doc[p[1]][p[2]].opt = o
            /\ ReadingOrderQid(doc, p[1], p[2]) = q

\* C9 as amended: an option is in AnswerKeyMap[q] only if an option span with
\* that number stands on a line whose question is q, that is, q is the first
\* marker of the latest marker line up to and including the span's own line,
\* wherever in its line the span stands; as long as no line held a marker,
\* AnswerKeyMap and AmbiguousSet stay empty.
C9_LineOrder ==
    /\ \A q \in DOMAIN answerkey : \A o \in answerkey[q] :
         \E p \in OptionSpansAt(doc) :
            /\ doc[p[1]][p[2]].opt = o
            /\ LineQid(doc, p[1]) = q
    /\ MarkerLines(doc, Len(doc)) = {} => (answerkey = EmptyMap /\ ambiguous = {})

C9_Witness ==
    /\ Len(doc) = 2
    /\ doc[1] = <<OptionSpan(1, PackedGreen)>>
    /\ doc[2] = <<OptionSpan(2, PackedGreen), MarkerSpan(5)>>
    /\ answerkey = (5 :> {2})
    /\ ambiguous = {}

\* C10: AmbiguousSet holds exactly the ids that were the current question on a
\* line with an ambiguity note, the marker of the note's own line counting; a
\* note before any marker changes nothing; every id of AmbiguousSet is a key of
\* AnswerKeyMap.
C10_NoteMarksCurrentQuestion ==
    /\ ambiguous = {LineQid(doc, i) :
                      i \in {k \in 1..Len(doc) : HasNote(doc[k]) /\ LineQid(doc, k) # None}}
    /\ ambiguous \subseteq DOMAIN answerkey
    /\ MarkerLines(doc, Len(doc)) = {} => (ambiguous = {} /\ answerkey = EmptyMap)

C10_Witness ==
    /\ Len(doc) = 2
    /\ doc[1] = <<NoteSpan("ambigu")>>
    /\ doc[2] = <<NoteSpan("candidate will get full marks"), MarkerSpan(6)>>
    /\ ambiguous = {6}
    /\ answerkey = (6 :> {})

\* ====================================================== Response extractor
\* The response text as a sequence of tokens.  "Q" is the label the pattern
\* reads as Question\s*ID\s*: and "C" the label it reads as Chosen\s*Option\s*:
\* (both through the colon); the others are single characters, "x" standing
\* for any character that is no digit, comma, pipe or whitespace.
Digits == {"1", "2"}
Whitespace == {" "}
ListClass == Digits \cup {",", "|"} \cup Whitespace
Tokens == {"Q", "C", "x"} \cup Digits \cup {","} \cup Whitespace

Texts(n) == UNION {[1..m -> Tokens] : m \in 0..n}

\* The end of the greedy run of characters of S that starts at t[i]: the first
\* index from i on whose character is not in S.
RunEnd(t, i, S) ==
    LET stops == {k \in i..Len(t) : t[k] \notin S}
    IN  IF stops = {} THEN Len(t) + 1
        ELSE CHOOSE k \in stops : \A m \in stops : k <= m

\* Question\s*ID\s*:\s*(\d+) matches at t[i]
QMarkerAt(t, i) ==
    /\ i <= Len(t)
    /\ t[i] = "Q"
    /\ RunEnd(t, i + 1, Whitespace) <= Len(t)
    /\ t[RunEnd(t, i + 1, Whitespace)] \in Digits

\* group 1 and the index after it
QMarkerEnd(t, i) == RunEnd(t, RunEnd(t, i + 1, Whitespace), Digits)
QMarkerId(t, i) == SubSeq(t, RunEnd(t, i + 1, Whitespace), QMarkerEnd(t, i) - 1)

\* Chosen\s*Option\s*:\s*([0-9,\|\s]+) matches at t[k]: the group needs one
\* character at least.
ChosenAt(t, k) == k <= Len(t) /\ t[k] = "C" /\ RunEnd(t, k + 1, ListClass) > k + 1

ChosenEnd(t, k) == RunEnd(t, k + 1, ListClass)

\* group 2: what \s* leaves of the run; \s* gives one whitespace back when it
\* has taken the whole run.
ChosenGroup(t, k) ==
    LET e == ChosenEnd(t, k)
        g == RunEnd(t, k + 1, Whitespace)
    IN  IF g < e THEN SubSeq(t, g, e - 1) ELSE SubSeq(t, e - 1, e - 1)

\* [\s\S]*? : the first index from i on where the Chosen Option part matches,
\* whatever lies in between; 0 when there is none.
FirstChosenFrom(t, i) ==
    LET at == {k \in i..Len(t) : ChosenAt(t, k)}
    IN  IF at = {} THEN 0 ELSE CHOOSE k \in at : \A m \in at : k <= m

\* re.findall(pattern, text): the matches left to right, each search starting
\* where the previous match ended.
RECURSIVE FindAll(_, _)
FindAll(t, pos) ==
    LET starts == {i \in pos..Len(t) : QMarkerAt(t, i) /\ FirstChosenFrom(t, QMarkerEnd(t, i)) # 0}
    IN  IF starts = {} THEN <<>>
        ELSE LET i == CHOOSE k \in starts : \A m \in starts : k <= m
                 c == FirstChosenFrom(t, QMarkerEnd(t, i))
             IN  <<[qid |-> QMarkerId(t, i), opttext |-> ChosenGroup(t, c)]>>
                     \o FindAll(t, ChosenEnd(t, c))

\* set(re.findall(r"\d+", opttext)): the maximal digit runs
DigitRuns(u) ==
    {SubSeq(u, a, RunEnd(u, a, Digits) - 1) :
        a \in {k \in 1..Len(u) : u[k] \in Digits /\ (k = 1 \/ u[k - 1] \notin Digits)}}

\* responses[qid] = opts
Store(resp, qid, opts) ==
    [k \in (DOMAIN resp) \cup {qid} |-> IF k = qid THEN opts ELSE resp[k]]

InitResp ==
    /\ text \in Texts(MaxLen)
    /\ matches = <<>>
    /\ responses = EmptyMap
    /\ respOrder = <<>>
    /\ phase = "parsing"
    /\ impl \in Impls
    /\ doc = <<>>
    /\ answerkey = EmptyMap
    /\ ambiguous = {}
    /\ current_qid = None
    /\ idx = 0
    /\ correct = 0
    /\ wrong = 0
    /\ details = <<>>

\* matches = re.findall(...)
FindMatches ==
    /\ phase = "parsing"
    /\ matches' = FindAll(text, 1)
    /\ phase' = "storing"
    /\ UNCHANGED <<text, responses, respOrder, answerkey, ambiguous, keyVars, scoreVars>>

\* One iteration of "for qid, opttext in matches".
StoreMatch ==
    /\ phase = "storing"
    /\ matches # <<>>
    /\ LET qid == Head(matches).qid
           opts == DigitRuns(Head(matches).opttext)
       IN  /\ responses' = Store(responses, qid, opts)
           /\ respOrder' = IF qid \in DOMAIN responses THEN respOrder ELSE Append(respOrder, qid)
    /\ matches' = Tail(matches)
    /\ UNCHANGED <<text, phase, answerkey, ambiguous, keyVars, scoreVars>>

\* "return responses"
RespReturn ==
    /\ phase = "storing"
    /\ matches = <<>>
    /\ phase' = "extracted"
    /\ UNCHANGED <<text, matches, responses, respOrder, answerkey, ambiguous, keyVars, scoreVars>>

NextResp == FindMatches \/ StoreMatch \/ RespReturn

SpecResp == InitResp /\ [][NextResp]_vars

\* ---------------------------------------------- Response extractor: claims
\* C5: every entry of the ResponseMap has a non-empty option set: a question
\* whose Chosen Option field holds no digit is absent from the map.
C5_NoEmptyOptionSet ==
    \A q \in DOMAIN responses : responses[q] # {}

\* C8: a question is in the ResponseMap only with the options of a Chosen Option
\* field that lies after one of its own markers and before the next question
\* marker.
C8_OwnChosenField ==
    phase = "extracted" =>
        \A q \in DOMAIN responses :
            \E i \in 1..Len(text) :
                /\ QMarkerAt(text, i)
                /\ QMarkerId(text, i) = q
                /\ \E k \in (i + 1)..Len(text) :
                      /\ text[k] = "C"
                      /\ \A m \in (i + 1)..(k - 1) : ~QMarkerAt(text, m)
                      /\ responses[q] = DigitRuns(SubSeq(text, k + 1, ChosenEnd(text, k) - 1))

====
